---- MODULE Spec2Model ----
(***************************************************************************)
(* A model of cmd/trace/pprof.go: the interval filter                      *)
(* (pprofMatchingGoroutines, pprofMatchingSpans), the overlap calculator   *)
(* (pprofOverlappingDuration), the four aggregation loops                  *)
(* (computePprofIO/Block/Syscall/Sched) and buildProfile.                  *)
(*                                                                         *)
(* Timestamps and durations are int64 nanoseconds in the source; the       *)
(* model draws them from 0..MaxTs, far from the width, so plain integers   *)
(* are exact.                                                              *)
(***************************************************************************)
EXTENDS Integers, Sequences, FiniteSets, TLC

\* ------------------------------------------------------------------ bounds

\* Timestamps of the trace are 0..MaxTs; MaxTs is the trace's last timestamp.
MaxTs == 3
\* The annotation index holds at most MaxSpans spans.
MaxSpans == 3
\* The overlap stage is probed under span indexes of at most MaxProbeSpans spans.
MaxProbeSpans == 2
\* A trace holds at most MaxEvents events.
MaxEvents == 2
\* A record's stack holds at most MaxStack frames.
MaxStack == 2

Goroutines == {1, 2}
Timestamps == 0..MaxTs

Min(a, b) == IF a < b THEN a ELSE b
Max(a, b) == IF a > b THEN a ELSE b

\* ---------------------------------------------------------------- intervals

\* type interval struct { begin, end int64 }
Interval(b, e) == [begin |-> b, end |-> e]

\* A Go map[uint64][]interval: nil or made, its key set, and the list held
\* under each key (the empty list under a key the map lacks, which is what a
\* read of a missing key or of a nil map returns).
NilMap == [isNil |-> TRUE, keys |-> {}, at |-> [g \in Goroutines |-> <<>>]]
MakeMap == [isNil |-> FALSE, keys |-> {}, at |-> [g \in Goroutines |-> <<>>]]
MapLen(m) == Cardinality(m.keys)

NoErr == ""

\* The less function handed to sort.Slice: by begin, ties by end.
IntervalLess(a, b) ==
    IF a.begin = b.begin THEN a.end < b.end ELSE a.begin < b.begin

RECURSIVE InsertSorted(_, _)
InsertSorted(x, s) ==
    IF s = <<>> THEN <<x>>
    ELSE IF IntervalLess(x, Head(s)) THEN <<x>> \o s
    ELSE <<Head(s)>> \o InsertSorted(x, Tail(s))

\* sort.Slice(intervals, less): the permutation of the list ordered by less.
\* Elements that less does not order are equal intervals, so the unstable
\* sort has one possible outcome.
RECURSIVE SortIntervals(_)
SortIntervals(s) ==
    IF s = <<>> THEN <<>> ELSE InsertSorted(Head(s), SortIntervals(Tail(s)))

\* SelectScan with the test made against the interval's end.
RECURSIVE SelectScanByEnd(_, _, _, _)
SelectScanByEnd(intervals, k, lastTimestamp, n) ==
    IF k > Len(intervals) THEN SubSeq(intervals, 1, n)
    ELSE LET i == intervals[k]
         IN IF lastTimestamp <= i.end
            THEN SelectScanByEnd([intervals EXCEPT ![n + 1] = i], k + 1, i.end, n + 1)
            ELSE SelectScanByEnd(intervals, k + 1, lastTimestamp, n)

\* SelectScan with lastTimestamp left at 0.
RECURSIVE SelectScanStaleLast(_, _, _, _)
SelectScanStaleLast(intervals, k, lastTimestamp, n) ==
    IF k > Len(intervals) THEN SubSeq(intervals, 1, n)
    ELSE LET i == intervals[k]
         IN IF lastTimestamp <= i.begin
            THEN SelectScanStaleLast([intervals EXCEPT ![n + 1] = i], k + 1,
                                     lastTimestamp, n + 1)
            ELSE SelectScanStaleLast(intervals, k + 1, lastTimestamp, n)

\* The scan that selects the outermost spans, in place: lastTimestamp starts
\* at 0 and n at 0; the k-th element i is copied to intervals[n] when
\* lastTimestamp <= i.begin (Go's range reads intervals[k] at iteration k, and
\* n <= k, so a write never reaches an element still to be read). The result
\* is intervals[:n].
RECURSIVE SelectScan(_, _, _, _)
SelectScan(intervals, k, lastTimestamp, n) ==
    IF k > Len(intervals) THEN SubSeq(intervals, 1, n)
    ELSE LET i == intervals[k]
         IN IF lastTimestamp <= i.begin
            THEN SelectScan([intervals EXCEPT ![n + 1] = i], k + 1, i.end, n + 1)
            ELSE SelectScan(intervals, k + 1, lastTimestamp, n)

\* The body of the per-goroutine loop: sort, then scan.
SelectOutermost(intervals) == SelectScan(SortIntervals(intervals), 1, 0, 0)

\* A span filter: nil, or a minimum-latency condition on the span.
NilFilter == [isNil |-> TRUE, latmin |-> 0]
LatFilter(d) == [isNil |-> FALSE, latmin |-> d]
FilterMatch(f, s) == s.last - s.first >= f.latmin

\* The spans of the index the filter matches, in index order.
RECURSIVE MatchingSpans(_, _)
MatchingSpans(f, idx) ==
    IF idx = <<>> THEN <<>>
    ELSE IF FilterMatch(f, Head(idx))
         THEN <<Head(idx)>> \o MatchingSpans(f, Tail(idx))
         ELSE MatchingSpans(f, Tail(idx))

\* The raw intervals appended to gToIntervals[g]: those of the matching spans
\* of g, in the order the index is ranged over (res.spans is a Go map, ranged
\* over in no fixed order: order[k] is the k-th matching span visited).
RECURSIVE CollectIntervals(_, _, _, _)
CollectIntervals(matching, order, k, g) ==
    IF k > Len(matching) THEN <<>>
    ELSE LET s == matching[order[k]]
             rest == CollectIntervals(matching, order, k + 1, g)
         IN IF s.G = g THEN <<Interval(s.first, s.last)>> \o rest ELSE rest

\* pprofMatchingSpans with the map made at the first matching span, as
\* pprofMatchingGoroutines makes its map.
pprofMatchingSpansLazyMap(f, idx, aerr, order) ==
    IF aerr # NoErr THEN [m |-> NilMap, err |-> aerr]
    ELSE IF f.isNil \/ MatchingSpans(f, idx) = <<>> THEN [m |-> NilMap, err |-> NoErr]
    ELSE LET matching == MatchingSpans(f, idx)
             keys == {matching[k].G : k \in 1..Len(matching)}
         IN [m |-> [isNil |-> FALSE,
                    keys |-> keys,
                    at |-> [g \in Goroutines |->
                              IF g \in keys
                              THEN SelectOutermost(CollectIntervals(matching, order, 1, g))
                              ELSE <<>>]],
             err |-> NoErr]

\* pprofMatchingSpans: the result pair (map, error). aerr is the error of
\* analyzeAnnotations, order the order in which the matching spans are met.
pprofMatchingSpans(f, idx, aerr, order) ==
    IF aerr # NoErr THEN [m |-> NilMap, err |-> aerr]
    ELSE IF f.isNil THEN [m |-> NilMap, err |-> NoErr]
    ELSE LET matching == MatchingSpans(f, idx)
             keys == {matching[k].G : k \in 1..Len(matching)}
         IN [m |-> [isNil |-> FALSE,
                    keys |-> keys,
                    at |-> [g \in Goroutines |->
                              IF g \in keys
                              THEN SelectOutermost(CollectIntervals(matching, order, 1, g))
                              ELSE <<>>]],
             err |-> NoErr]

\* The orders in which n things can be ranged over.
Orders == [n \in 0..Max(MaxSpans, MaxEvents) |-> Permutations(1..n)]

\* The orders in which pprofMatchingSpans can meet the matching spans.
SpanOrders(f, idx, aerr) ==
    IF aerr # NoErr \/ f.isNil THEN {<<>>}
    ELSE Orders[Len(MatchingSpans(f, idx))]

\* ------------------------------------------------------- goroutine filter

\* A request's id string, as its characters.
IdStrings ==
    {<<>>, <<"x">>, <<"1">>, <<"2">>, <<"1", "2">>, <<"2", "1">>, <<"1", "x">>}

DigitValue(c) == IF c = "1" THEN 1 ELSE IF c = "2" THEN 2 ELSE -1

\* strconv.ParseUint(id, 10, 64): ok is FALSE on the empty string and on any
\* character that is no digit; the value is read in base 10.
RECURSIVE ParseDigits(_, _, _)
ParseDigits(str, k, acc) ==
    IF k > Len(str) THEN [ok |-> TRUE, value |-> acc]
    ELSE IF DigitValue(str[k]) < 0 THEN [ok |-> FALSE, value |-> 0]
    ELSE ParseDigits(str, k + 1, 10 * acc + DigitValue(str[k]))

ParseUint(str) ==
    IF str = <<>> THEN [ok |-> FALSE, value |-> 0] ELSE ParseDigits(str, 1, 0)

\* Creation sites (PCs) of the goroutines of the trace.
GoroutinePCs == {1, 12}

\* lastTimestamp(): the trace's last timestamp.
lastTimestamp == MaxTs

\* The interval stored for goroutine g: its start to its end, and to the
\* trace's end when the trace holds no end event (EndTime 0).
GoroutineInterval(g) ==
    Interval(g.StartTime, IF g.EndTime = 0 THEN lastTimestamp ELSE g.EndTime)

\* NoMatch with the test of the id inverted.
NoMatchEmptyId(res, str) == MapLen(res) = 0 /\ str = <<>>

\* The final check of pprofMatchingGoroutines: len(res) == 0 && id != "".
NoMatch(res, str) == MapLen(res) = 0 /\ str # <<>>

\* pprofMatchingGoroutines: the result pair (map, error). index is the
\* goroutine index gs, a function from the goroutine ids it holds.
pprofMatchingGoroutines(str, index) ==
    IF str = <<>> THEN [m |-> NilMap, err |-> NoErr]
    ELSE LET parsed == ParseUint(str)
         IN IF ~parsed.ok THEN [m |-> NilMap, err |-> "invalid goroutine type"]
            ELSE LET keys == {g \in DOMAIN index : index[g].PC = parsed.value}
                     res == IF keys = {} THEN NilMap
                            ELSE [isNil |-> FALSE,
                                  keys |-> keys,
                                  at |-> [g \in Goroutines |->
                                            IF g \in keys
                                            THEN <<GoroutineInterval(index[g])>>
                                            ELSE <<>>]]
                 IN IF NoMatch(res, str)
                    THEN [m |-> NilMap, err |-> "failed to find matching goroutines"]
                    ELSE [m |-> res, err |-> NoErr]

\* ------------------------------------------------------ overlap calculator

\* ev.Link == nil: the event has no linked end event.
NoLink == -1

\* overlappingDuration(start1, end1, start2, end2): the length of the
\* intersection of two ranges, 0 when they do not meet.
overlappingDuration(start1, end1, start2, end2) ==
    Max(0, Min(end1, end2) - Max(start1, start2))

\* OverlapLoop with the overlap assigned instead of added.
RECURSIVE OverlapLoopAssign(_, _, _, _)
OverlapLoopAssign(intervals, e, k, overlapping) ==
    IF k > Len(intervals) THEN overlapping
    ELSE LET o == overlappingDuration(intervals[k].begin, intervals[k].end,
                                      e.Ts, e.Link)
         IN OverlapLoopAssign(intervals, e, k + 1, IF o > 0 THEN o ELSE overlapping)

\* The loop of pprofOverlappingDuration: adds every positive overlap.
RECURSIVE OverlapLoop(_, _, _, _)
OverlapLoop(intervals, e, k, overlapping) ==
    IF k > Len(intervals) THEN overlapping
    ELSE LET o == overlappingDuration(intervals[k].begin, intervals[k].end,
                                      e.Ts, e.Link)
         IN OverlapLoop(intervals, e, k + 1,
                        IF o > 0 THEN overlapping + o ELSE overlapping)

\* pprofOverlappingDuration(gToIntervals, ev), ev an event with a linked end.
pprofOverlappingDuration(m, e) ==
    IF m.isNil THEN e.Link - e.Ts
    ELSE LET intervals == m.at[e.G]
         IN IF Len(intervals) = 0 THEN 0 ELSE OverlapLoop(intervals, e, 1, 0)

\* -------------------------------------------------------------- aggregator

\* A stack frame of the trace.
Frame(pc, fn, file, line) == [PC |-> pc, Fn |-> fn, File |-> file, Line |-> line]

\* The trace's stack table: ev.Stk is the stack of id ev.StkID. Id 0 is "no
\* stack"; id 3 is a stack with no captured frame.
TraceStacks ==
    [s \in 0..3 |->
        CASE s = 1 -> <<Frame(1, "main.read", "net.go", 10), Frame(2, "main.main", "main.go", 20)>>
          [] s = 2 -> <<Frame(3, "main.wait", "net.go", 30), Frame(2, "main.main", "main.go", 20)>>
          [] OTHER -> <<>>]

Stk(e) == TraceStacks[e.StkID]

\* The empty map.
EmptyFn == [x \in {} |-> 0]

Extend(f, k, v) == [x \in DOMAIN f \cup {k} |-> IF x = k THEN v ELSE f[x]]

\* The event types each compute function keeps.
KindIncludes(k, type) ==
    CASE k = "io" -> type = "EvGoBlockNet"
      [] k = "block" -> type \in {"EvGoBlockSend", "EvGoBlockRecv", "EvGoBlockSelect",
                                  "EvGoBlockSync", "EvGoBlockCond", "EvGoBlockGC"}
      [] k = "syscall" -> type = "EvGoSysCall"
      [] k = "sched" -> type \in {"EvGoUnblock", "EvGoCreate"}

\* ev.Link == nil || ev.StkID == 0 || len(ev.Stk) == 0
Unusable(e) == e.Link = NoLink \/ e.StkID = 0 \/ Len(Stk(e)) = 0

\* The zero Record a read of a missing key returns.
ZeroRecord == [stk |-> <<>>, n |-> 0, time |-> 0]

\* UpdateRecord with the overlap assigned to the time instead of added.
UpdateRecordAssign(records, e, o) ==
    LET rec == IF e.StkID \in DOMAIN records THEN records[e.StkID] ELSE ZeroRecord
    IN Extend(records, e.StkID, [stk |-> Stk(e), n |-> rec.n + 1, time |-> o])

\* The update of the Record of the event's stack id by an overlap o > 0.
UpdateRecord(records, e, o) ==
    LET rec == IF e.StkID \in DOMAIN records THEN records[e.StkID] ELSE ZeroRecord
    IN Extend(records, e.StkID,
              [stk |-> Stk(e), n |-> rec.n + 1, time |-> rec.time + o])

\* LoopBody with the test of the overlap made o >= 0.
LoopBodyKeepsZero(k, m, records, e) ==
    IF ~KindIncludes(k, e.Type) \/ Unusable(e) THEN records
    ELSE LET o == pprofOverlappingDuration(m, e)
         IN IF o >= 0 THEN UpdateRecord(records, e, o) ELSE records

\* The body of the loop over the events, shared by the four compute functions.
LoopBody(k, m, records, e) ==
    IF ~KindIncludes(k, e.Type) \/ Unusable(e) THEN records
    ELSE LET o == pprofOverlappingDuration(m, e)
         IN IF o > 0 THEN UpdateRecord(records, e, o) ELSE records

\* for _, ev := range events { ... } from prof := make(map[uint64]Record).
RECURSIVE ComputeLoop(_, _, _, _, _)
ComputeLoop(k, m, list, i, records) ==
    IF i > Len(list) THEN records
    ELSE ComputeLoop(k, m, list, i + 1, LoopBody(k, m, records, list[i]))

computeProf(k, m, list) == ComputeLoop(k, m, list, 1, EmptyFn)

\* ------------------------------------------------------------ buildProfile

\* The key of the funcs map: frame.File + frame.Fn.
FuncKey(frame) == frame.File \o frame.Fn

\* The profile under construction: p.Function, p.Location and p.Sample, and
\* the maps locs and funcs. A *profile.Function or *profile.Location is the
\* position of the object in p.Function or p.Location.
NewProfile ==
    [Function |-> <<>>, Location |-> <<>>, Sample |-> <<>>,
     locs |-> EmptyFn, funcs |-> EmptyFn]

\* NextID without the plus 1.
NextIDFromZero(table) == Len(table)

\* The id given to a new Function or Location: the table's length plus 1.
NextID(table) == Len(table) + 1

\* funcs[frame.File+frame.Fn], created when missing.
InternFunction(b, frame) ==
    IF FuncKey(frame) \in DOMAIN b.funcs THEN b
    ELSE [b EXCEPT
            !.Function = Append(@, [ID |-> NextID(b.Function), Name |-> frame.Fn,
                                    SystemName |-> frame.Fn, Filename |-> frame.File]),
            !.funcs = Extend(@, FuncKey(frame), Len(b.Function) + 1)]

\* locs[frame.PC], created when missing.
InternLocation(b, frame) ==
    IF frame.PC \in DOMAIN b.locs THEN b
    ELSE LET c == InternFunction(b, frame)
             loc == [ID |-> NextID(c.Location), Address |-> frame.PC,
                     Line |-> <<[Function |-> c.funcs[FuncKey(frame)],
                                 Line |-> frame.Line]>>]
         IN [c EXCEPT !.Location = Append(@, loc),
                      !.locs = Extend(@, frame.PC, Len(c.Location) + 1)]

\* The inner loop over rec.stk, from frame i on: the profile and sloc.
RECURSIVE InternStack(_, _, _, _)
InternStack(b, stk, i, sloc) ==
    IF i > Len(stk) THEN [b |-> b, sloc |-> sloc]
    ELSE LET c == InternLocation(b, stk[i])
         IN InternStack(c, stk, i + 1, Append(sloc, c.locs[stk[i].PC]))

\* One iteration of the loop over prof.
BuildSample(b, rec) ==
    LET r == InternStack(b, rec.stk, 1, <<>>)
    IN [r.b EXCEPT !.Sample = Append(@, [Value |-> <<rec.n, rec.time>>,
                                         Location |-> r.sloc])]

\* for _, rec := range prof { ... }: order is the order in which the Go map
\* is ranged over (the stack ids of prof, each once).
RECURSIVE BuildLoop(_, _, _, _)
BuildLoop(b, records, order, i) ==
    IF i > Len(order) THEN b
    ELSE BuildLoop(BuildSample(b, records[order[i]]), records, order, i + 1)

buildProfile(records, order) == BuildLoop(NewProfile, records, order, 1)

\* The orders in which a map can be ranged over: its keys, each once.
RangeOrders(f) ==
    {o \in [1..Cardinality(DOMAIN f) -> DOMAIN f] :
        \A i, j \in DOMAIN o : i # j => o[i] # o[j]}

\* ------------------------------------------------------------ input domains

SpanUniverse ==
    {s \in [G : Goroutines, first : Timestamps, last : Timestamps] : s.first <= s.last}

SpanRank(s) == (s.G * (MaxTs + 1) + s.first) * (MaxTs + 1) + s.last

\* The span index, a multiset of at most max spans: one list per multiset (the
\* order in which it is ranged over is chosen when it is read).
SpanIndexesUpTo(max) ==
    UNION {{idx \in [1..n -> SpanUniverse] :
              \A k \in 1..(n - 1) : SpanRank(idx[k]) <= SpanRank(idx[k + 1])} :
           n \in 0..max}

Filters == {NilFilter, LatFilter(0), LatFilter(1), LatFilter(MaxTs + 1)}

\* A goroutine of the index: its creation site, its start, and its end
\* (0 when the trace holds no end event for it).
GoroutineDescs ==
    {d \in [PC : GoroutinePCs, StartTime : Timestamps, EndTime : Timestamps] :
        d.EndTime = 0 \/ d.StartTime <= d.EndTime}

GoroutineIndexes == UNION {[S -> GoroutineDescs] : S \in SUBSET Goroutines}

Kinds == {"io", "block", "syscall", "sched"}

\* The types of the events of a trace: those the compute functions name, and
\* one that none keeps.
EventTypes ==
    << "EvGoBlockNet", "EvGoBlockSend", "EvGoBlockRecv", "EvGoBlockSelect",
       "EvGoBlockSync", "EvGoBlockCond", "EvGoBlockGC", "EvGoSysCall",
       "EvGoUnblock", "EvGoCreate", "EvGoStart" >>

\* The type under which a trace of kind k carries every shape of event.
PrimaryType(k) ==
    CASE k = "io" -> "EvGoBlockNet"
      [] k = "block" -> "EvGoBlockSync"
      [] k = "syscall" -> "EvGoSysCall"
      [] k = "sched" -> "EvGoUnblock"

\* Goroutine, start, linked end and stack id of the events of a trace: two
\* durations on one stack, a second stack, a second goroutine, no duration, no
\* linked end, no stack id, no frame.
EventShapes ==
    << [G |-> 1, Ts |-> 0, Link |-> 2, StkID |-> 1],
       [G |-> 1, Ts |-> 0, Link |-> 3, StkID |-> 1],
       [G |-> 1, Ts |-> 1, Link |-> 3, StkID |-> 2],
       [G |-> 2, Ts |-> 0, Link |-> 2, StkID |-> 2],
       [G |-> 1, Ts |-> 2, Link |-> 2, StkID |-> 1],
       [G |-> 1, Ts |-> 0, Link |-> NoLink, StkID |-> 1],
       [G |-> 1, Ts |-> 0, Link |-> 2, StkID |-> 0],
       [G |-> 1, Ts |-> 0, Link |-> 2, StkID |-> 3] >>

Event(type, shape) ==
    [G |-> shape.G, Type |-> type, Ts |-> shape.Ts, Link |-> shape.Link,
     StkID |-> shape.StkID]

\* The events a trace of kind k is drawn from: every shape under the primary
\* type, and the first shape under every type.
EventCodes == 1..(Len(EventShapes) + Len(EventTypes))

EventOf(k, code) ==
    IF code <= Len(EventShapes) THEN Event(PrimaryType(k), EventShapes[code])
    ELSE Event(EventTypes[code - Len(EventShapes)], EventShapes[1])

\* The traces of at most MaxEvents events, as multisets: one list each.
Traces(k) ==
    UNION {{[i \in 1..n |-> EventOf(k, codes[i])] :
              codes \in {c \in [1..n -> EventCodes] :
                           \A i \in 1..(n - 1) : c[i] <= c[i + 1]}} :
           n \in 0..MaxEvents}

\* list in the order perm: the perm[i]-th event comes i-th.
Permuted(list, perm) == [i \in 1..Len(list) |-> list[perm[i]]]

\* ------------------------------------------------------------------- state

VARIABLES
    pc,            \* where the request stands
    handler,       \* "goroutine" (pprofByGoroutine) or "span" (pprofBySpan)
    kind,          \* the compute function the handler wraps
    id,            \* the request's id form value
    gs,            \* the goroutine index
    filter,        \* the request's span filter
    spans,         \* the annotation index's spans
    annErr,        \* the error of analyzeAnnotations
    events,        \* the trace's events
    gToIntervals,  \* the interval filter's result
    err,           \* the error returned to the caller
    ev,            \* the event handed to pprofOverlappingDuration
    overlapping,   \* its result
    ranged,        \* the events in the order the compute loop ranged over them
    prof,          \* the Record map
    profile        \* the profile buildProfile returned

vars == <<pc, handler, kind, id, gs, filter, spans, annErr, events, gToIntervals,
          err, ev, overlapping, ranged, prof, profile>>

inputs == <<handler, kind, id, gs, filter, spans, annErr, events>>

NoEvent == [G |-> 1, Ts |-> 0, Link |-> NoLink]

\* ------------------------------------------------------- the filter stage

InitRequest(ids, gindexes, indexes, kinds) ==
    /\ pc = "request"
    /\ handler \in {"goroutine", "span"}
    /\ \/ /\ handler = "goroutine"
          /\ id \in ids
          /\ gs \in gindexes
          /\ filter = NilFilter /\ spans = <<>> /\ annErr = NoErr
       \/ /\ handler = "span"
          /\ \/ filter \in Filters /\ spans \in indexes /\ annErr = NoErr
             \/ /\ filter = LatFilter(0) /\ spans = <<>>
                /\ annErr = "failed to analyze annotations"
          /\ id = <<>> /\ gs = EmptyFn
    /\ kind \in kinds
    /\ gToIntervals = NilMap
    /\ err = NoErr
    /\ ev = NoEvent
    /\ overlapping = 0
    /\ ranged = <<>>
    /\ prof = EmptyFn
    /\ profile = NewProfile

InitFilter ==
    /\ InitRequest(IdStrings, GoroutineIndexes, SpanIndexesUpTo(MaxSpans), {"io"})
    /\ events = <<>>

\* pprofByGoroutine up to the call of compute.
ByGoroutine ==
    /\ pc = "request" /\ handler = "goroutine"
    /\ LET r == pprofMatchingGoroutines(id, gs)
       IN /\ gToIntervals' = r.m
          /\ err' = r.err
          /\ pc' = IF r.err # NoErr THEN "failed" ELSE "filtered"
    /\ UNCHANGED <<inputs, ev, overlapping, ranged, prof, profile>>

\* pprofBySpan up to the call of compute.
BySpan ==
    /\ pc = "request" /\ handler = "span"
    /\ \E order \in SpanOrders(filter, spans, annErr) :
         LET r == pprofMatchingSpans(filter, spans, annErr, order)
         IN /\ gToIntervals' = r.m
            /\ err' = r.err
            /\ pc' = IF r.err # NoErr THEN "failed" ELSE "filtered"
    /\ UNCHANGED <<inputs, ev, overlapping, ranged, prof, profile>>

NextFilter == ByGoroutine \/ BySpan

SpecFilter == InitFilter /\ [][NextFilter]_vars

\* ------------------------------------------------------ the overlap stage

\* The events with a linked end: the end is not before the start.
LinkedEvents ==
    {e \in [G : Goroutines, Ts : Timestamps, Link : Timestamps] : e.Ts <= e.Link}

InitOverlap ==
    /\ InitRequest({<<>>, <<"1">>, <<"1", "2">>}, GoroutineIndexes,
                   SpanIndexesUpTo(MaxProbeSpans), {"io"})
    /\ events = <<>>

\* One call pprofOverlappingDuration(gToIntervals, ev).
Overlap ==
    /\ pc = "filtered"
    /\ \E e \in LinkedEvents :
         /\ ev' = e
         /\ overlapping' = pprofOverlappingDuration(gToIntervals, e)
    /\ pc' = "overlap"
    /\ UNCHANGED <<inputs, gToIntervals, err, ranged, prof, profile>>

NextOverlap == ByGoroutine \/ BySpan \/ Overlap

SpecOverlap == InitOverlap /\ [][NextOverlap]_vars

\* ------------------------------------------------------ the whole request

\* The goroutine index and the span index of the trace the requests are
\* served from.
TraceGoroutines ==
    [g \in Goroutines |->
        IF g = 1 THEN [PC |-> 1, StartTime |-> 1, EndTime |-> 2]
        ELSE [PC |-> 12, StartTime |-> 0, EndTime |-> 0]]

TraceSpans ==
    << [G |-> 1, first |-> 0, last |-> 1],
       [G |-> 1, first |-> 1, last |-> 1],
       [G |-> 1, first |-> 2, last |-> 3] >>

Init ==
    /\ InitRequest({<<>>, <<"1">>, <<"2">>}, {TraceGoroutines}, {<<>>, TraceSpans}, Kinds)
    /\ events \in Traces(kind)

\* compute(w, gToIntervals, events): the loop over the events, then
\* buildProfile(prof).Write(w), which succeeds.
Compute(k) ==
    /\ pc = "filtered" /\ kind = k
    /\ \E perm \in Orders[Len(events)] :
         /\ ranged' = Permuted(events, perm)
         /\ prof' = computeProf(k, gToIntervals, ranged')
    /\ \E order \in RangeOrders(prof') : profile' = buildProfile(prof', order)
    /\ err' = NoErr
    /\ pc' = "done"
    /\ UNCHANGED <<inputs, gToIntervals, ev, overlapping>>

computePprofIO == Compute("io")
computePprofBlock == Compute("block")
computePprofSyscall == Compute("syscall")
computePprofSched == Compute("sched")

Next ==
    \/ ByGoroutine
    \/ BySpan
    \/ computePprofIO
    \/ computePprofBlock
    \/ computePprofSyscall
    \/ computePprofSched

Spec == Init /\ [][Next]_vars

\* ------------------------------------------------------- the build stage

\* Creation of the profile from a Record map as the aggregation leaves it:
\* each record a non-empty stack of symbolized frames, a count and a time.
BuildPCs == {1, 2, 3}
\* (file, function) pairs a program counter can symbolize to.
SymbolPairs == {<<"x.go", "main.f">>, <<"x.go", "main.g">>, <<"x.gom", "ain.f">>}
\* The symbol tables: the frame of each program counter.
SymbolTables == [BuildPCs -> SymbolPairs]
SymbolFrame(sym, a) == Frame(a, sym[a][2], sym[a][1], 10 * a)

BuildStacks == UNION {[1..n -> BuildPCs] : n \in 1..MaxStack}
BuildStackIDs == {1, 2}
\* (count, time) of a record.
Weights == {<<1, 1>>, <<2, 7>>}

RecordMaps(sym) ==
    UNION {[S -> {[stk |-> [i \in 1..Len(pcs) |-> SymbolFrame(sym, pcs[i])],
                   n |-> w[1], time |-> w[2]] :
                     pcs \in BuildStacks, w \in Weights}] :
           S \in SUBSET BuildStackIDs}

InitBuild ==
    /\ pc = "aggregated"
    /\ \E sym \in SymbolTables : prof \in RecordMaps(sym)
    /\ handler = "goroutine" /\ kind = "io" /\ id = <<>> /\ gs = EmptyFn
    /\ filter = NilFilter /\ spans = <<>> /\ annErr = NoErr /\ events = <<>>
    /\ gToIntervals = NilMap /\ err = NoErr /\ ev = NoEvent /\ overlapping = 0
    /\ ranged = <<>>
    /\ profile = NewProfile

\* One call buildProfile(prof).
BuildProfile ==
    /\ pc = "aggregated"
    /\ \E order \in RangeOrders(prof) : profile' = buildProfile(prof, order)
    /\ pc' = "built"
    /\ UNCHANGED <<inputs, gToIntervals, err, ev, overlapping, ranged, prof>>

NextBuild == BuildProfile

SpecBuild == InitBuild /\ [][NextBuild]_vars

\* ------------------------------------------------- claims: the filter stage

SpanFiltered == pc = "filtered" /\ handler = "span" /\ ~filter.isNil

\* The raw intervals of goroutine g: those of its matching spans.
RawIntervals(g) ==
    {Interval(spans[k].first, spans[k].last) :
        k \in {j \in 1..Len(spans) : spans[j].G = g /\ FilterMatch(filter, spans[j])}}

Kept(g) == {gToIntervals.at[g][k] : k \in 1..Len(gToIntervals.at[g])}

\* C1: the list pprofMatchingSpans stores for a goroutine is sorted ascending
\* by begin, pairwise non-overlapping (a later interval begins at or after the
\* end of every earlier one), and holds only intervals of the input.
C1_SelectionSortedDisjointFromInput ==
    SpanFiltered =>
        \A g \in gToIntervals.keys :
            LET list == gToIntervals.at[g]
            IN /\ \A i, j \in 1..Len(list) :
                    i < j => /\ list[i].begin <= list[j].begin
                             /\ list[i].end <= list[j].begin
               /\ Kept(g) \subseteq RawIntervals(g)

C1_Witness ==
    /\ SpanFiltered
    /\ \E g \in gToIntervals.keys :
         /\ Len(gToIntervals.at[g]) = 2
         /\ Cardinality(RawIntervals(g)) = 3

\* C5: a non-empty, parseable id that matches no goroutine of the index makes
\* pprofMatchingGoroutines return an error and the nil map, and the handler
\* stops before compute; a non-nil map returned without error has an entry.
C5_NoMatchIsAnError ==
    (handler = "goroutine" /\ pc # "request") =>
        /\ (/\ id # <<>>
            /\ ParseUint(id).ok
            /\ \A g \in DOMAIN gs : gs[g].PC # ParseUint(id).value)
           => (pc = "failed" /\ err # NoErr /\ gToIntervals.isNil)
        /\ (err = NoErr /\ ~gToIntervals.isNil) => MapLen(gToIntervals) >= 1

C5_Witness ==
    /\ handler = "goroutine" /\ pc = "failed"
    /\ ParseUint(id).ok
    /\ DOMAIN gs = Goroutines
    /\ err = "failed to find matching goroutines"

\* Two ranges that share a point.
RangesMeet(a, b) == a.first <= b.last /\ b.first <= a.last

\* C8: of two matching spans of one goroutine with different ranges, one
\* nested in the other, and no other matching span of the goroutine meeting
\* the outer one, the result keeps the outer interval and drops the inner.
C8_NestedCollapsesToOuter ==
    SpanFiltered =>
        \A o, n \in 1..Len(spans) :
            LET outer == spans[o]
                inner == spans[n]
            IN (/\ o # n
                /\ outer.G = inner.G
                /\ FilterMatch(filter, outer) /\ FilterMatch(filter, inner)
                /\ <<outer.first, outer.last>> # <<inner.first, inner.last>>
                /\ outer.first <= inner.first /\ inner.last <= outer.last
                /\ \A k \in 1..Len(spans) \ {o, n} :
                      ~(/\ spans[k].G = outer.G
                        /\ FilterMatch(filter, spans[k])
                        /\ RangesMeet(spans[k], outer)))
               => /\ Interval(outer.first, outer.last) \in Kept(outer.G)
                  /\ Interval(inner.first, inner.last) \notin Kept(outer.G)

\* ------------------------------------------------ claims: the overlap stage

\* C2: the overlap of an event with a linked end against any result of the
\* interval filter is at least 0 and at most the event's own duration.
C2_OverlapWithinDuration ==
    pc = "overlap" => (0 <= overlapping /\ overlapping <= ev.Link - ev.Ts)

C2_Witness ==
    /\ pc = "overlap" /\ handler = "span"
    /\ Len(gToIntervals.at[ev.G]) = 2
    /\ 0 < overlapping /\ overlapping < ev.Link - ev.Ts

\* The sum over a list of intervals of the length of each one's intersection
\* with the range [ts, link).
RECURSIVE IntersectionSum(_, _, _)
IntersectionSum(list, ts, link) ==
    IF list = <<>> THEN 0
    ELSE Max(0, Min(Head(list).end, link) - Max(Head(list).begin, ts))
         + IntersectionSum(Tail(list), ts, link)

\* C6: pprofOverlappingDuration is linkedEnd - start under the nil map, 0 when
\* the map lacks the event's goroutine or holds an empty list for it, and
\* otherwise the sum of the intersections of the goroutine's intervals with
\* the event.
C6_OverlapIsIntersectionSum ==
    pc = "overlap" =>
        overlapping =
            IF gToIntervals.isNil THEN ev.Link - ev.Ts
            ELSE IF ev.G \notin gToIntervals.keys \/ gToIntervals.at[ev.G] = <<>>
                 THEN 0
                 ELSE IntersectionSum(gToIntervals.at[ev.G], ev.Ts, ev.Link)

\* The documented example, scaled: intervals [0,1) and [2,3), event [0,3): 2.
C6_Witness ==
    /\ pc = "overlap"
    /\ ~gToIntervals.isNil
    /\ gToIntervals.at[ev.G] = <<Interval(0, 1), Interval(2, 3)>>
    /\ ev.Ts = 0 /\ ev.Link = 3
    /\ overlapping = 2

\* ---------------------------------------------- claims: the whole request

\* C3: every order of the same events leaves the Record map that the events
\* in the order the trace lists them leave: the same stack ids, each with the
\* same count, time and stack.
C3_AggregationOrderIndependent ==
    pc = "done" => prof = computeProf(kind, gToIntervals, events)

C3_Witness ==
    /\ pc = "done"
    /\ ranged # events
    /\ ~gToIntervals.isNil
    /\ \E s \in DOMAIN prof : prof[s].n = 2 /\ prof[s].time = 3

\* The event kinds of each profile kind.
IncludedTypes(k) ==
    CASE k = "io" -> {"EvGoBlockNet"}
      [] k = "block" -> {"EvGoBlockSend", "EvGoBlockRecv", "EvGoBlockSelect",
                         "EvGoBlockSync", "EvGoBlockCond", "EvGoBlockGC"}
      [] k = "syscall" -> {"EvGoSysCall"}
      [] k = "sched" -> {"EvGoUnblock", "EvGoCreate"}

\* The events of the trace that count towards stack id s, by position.
Counted(s) ==
    {i \in 1..Len(events) :
        /\ events[i].Type \in IncludedTypes(kind)
        /\ events[i].Link # NoLink
        /\ events[i].StkID = s /\ s # 0
        /\ Len(TraceStacks[s]) >= 1
        /\ pprofOverlappingDuration(gToIntervals, events[i]) > 0}

RECURSIVE OverlapSum(_)
OverlapSum(S) ==
    IF S = {} THEN 0
    ELSE LET i == CHOOSE x \in S : TRUE
         IN pprofOverlappingDuration(gToIntervals, events[i]) + OverlapSum(S \ {i})

\* C7: after the loop the Record map has an entry for stack id s exactly when
\* an event of an included kind with a linked end, stack id s (not 0), a frame
\* and a positive overlap exists; its count is the number of such events and
\* its time the sum of their overlaps.
C7_RecordsCountQualifyingEvents ==
    pc = "done" =>
        /\ DOMAIN prof = {s \in DOMAIN TraceStacks : Counted(s) # {}}
        /\ \A s \in DOMAIN prof :
             /\ prof[s].n = Cardinality(Counted(s))
             /\ prof[s].time = OverlapSum(Counted(s))

\* The documented example, scaled: one network-block event of goroutine 1 from 0
\* to 2 with a stack, no filter: one record and one sample, values [1, 2].
C7_Witness ==
    /\ pc = "done" /\ kind = "io" /\ gToIntervals.isNil
    /\ Len(events) = 1 /\ events[1].Type = "EvGoBlockNet"
    /\ DOMAIN prof = {1} /\ prof[1].n = 1 /\ prof[1].time = 2
    /\ Len(profile.Sample) = 1 /\ profile.Sample[1].Value = <<1, 2>>

NoSpanMatches == \A k \in 1..Len(spans) : ~FilterMatch(filter, spans[k])

\* The events that qualify whatever the filter: included kind, linked end,
\* stack id s (not 0), a frame, a positive duration.
Qualifying(s) ==
    {i \in 1..Len(events) :
        /\ events[i].Type \in IncludedTypes(kind)
        /\ events[i].Link # NoLink
        /\ events[i].StkID = s /\ s # 0
        /\ Len(TraceStacks[s]) >= 1
        /\ events[i].Link - events[i].Ts > 0}

RECURSIVE DurationSum(_)
DurationSum(S) ==
    IF S = {} THEN 0
    ELSE LET i == CHOOSE x \in S : TRUE
         IN (events[i].Link - events[i].Ts) + DurationSum(S \ {i})

\* C10: a non-nil span filter that matches no span gives an empty non-nil map
\* and no error; the request then ends in success with an empty Record map
\* and an empty profile. The nil map is returned without error only under a
\* nil filter, and then every qualifying event counts with its duration.
C10_NoMatchingSpanIsEmptySuccess ==
    (handler = "span" /\ pc # "request") =>
        /\ (~filter.isNil /\ annErr = NoErr /\ NoSpanMatches) =>
              /\ gToIntervals = MakeMap
              /\ err = NoErr
              /\ pc \in {"filtered", "done"}
              /\ pc = "done" => /\ prof = EmptyFn
                                /\ profile.Sample = <<>>
                                /\ profile.Function = <<>>
                                /\ profile.Location = <<>>
        /\ (gToIntervals.isNil /\ err = NoErr) => filter.isNil
        /\ (filter.isNil /\ pc = "done") =>
              /\ gToIntervals.isNil
              /\ \A s \in DOMAIN TraceStacks :
                   /\ (s \in DOMAIN prof) = (Qualifying(s) # {})
                   /\ s \in DOMAIN prof =>
                        /\ prof[s].n = Cardinality(Qualifying(s))
                        /\ prof[s].time = DurationSum(Qualifying(s))

C10_Witness ==
    /\ handler = "span" /\ pc = "done"
    /\ ~filter.isNil /\ spans # <<>> /\ NoSpanMatches
    /\ \E s \in DOMAIN TraceStacks : Cardinality(Qualifying(s)) = 2
    /\ prof = EmptyFn /\ profile.Sample = <<>> /\ err = NoErr

\* ------------------------------------------------ claims: the build stage

\* C9: buildProfile emits one Sample per entry of the Record map, with the
\* values [count, time] and one Location per frame, in the stack's order, at
\* the frame's address; Function ids and Location ids are 1..N in creation
\* order.
C9_SamplesMirrorRecords ==
    pc = "built" =>
        /\ Len(profile.Sample) = Cardinality(DOMAIN prof)
        /\ \E o \in RangeOrders(prof) :
             \A i \in 1..Len(o) :
                LET rec == prof[o[i]]
                    smp == profile.Sample[i]
                IN /\ smp.Value = <<rec.n, rec.time>>
                   /\ Len(smp.Location) = Len(rec.stk)
                   /\ \A j \in 1..Len(rec.stk) :
                        profile.Location[smp.Location[j]].Address = rec.stk[j].PC
        /\ \A i \in 1..Len(profile.Function) : profile.Function[i].ID = i
        /\ \A i \in 1..Len(profile.Location) : profile.Location[i].ID = i

C9_Witness ==
    /\ pc = "built"
    /\ Len(profile.Sample) = 2
    /\ Len(profile.Location) = 2 /\ Len(profile.Function) = 2
    /\ \E i \in 1..2 : /\ Len(profile.Sample[i].Location) = 2
                       /\ profile.Sample[i].Location[1] = profile.Sample[i].Location[2]
    /\ profile.Sample[1].Value # profile.Sample[2].Value

\* The frames of the records of the Record map.
RecordFrames ==
    UNION {{prof[s].stk[i] : i \in 1..Len(prof[s].stk)} : s \in DOMAIN prof}

FunctionsOf(file, fn) ==
    {i \in 1..Len(profile.Function) :
        profile.Function[i].Filename = file /\ profile.Function[i].Name = fn}

LocationsAt(address) ==
    {i \in 1..Len(profile.Location) : profile.Location[i].Address = address}

\* C4: in the profile buildProfile returns, each (filename, function name)
\* pair of the records' frames has exactly one Function entry and each frame
\* address exactly one Location entry; the Location of a frame refers to the
\* Function of the frame's own pair; samples that share a frame address refer
\* to the same Location.
C4_OneEntryPerKey ==
    pc = "built" =>
        /\ \A fr \in RecordFrames :
             /\ Cardinality(FunctionsOf(fr.File, fr.Fn)) = 1
             /\ Cardinality(LocationsAt(fr.PC)) = 1
             /\ \A i \in LocationsAt(fr.PC) :
                  profile.Location[i].Line[1].Function \in FunctionsOf(fr.File, fr.Fn)
        /\ \A a, b \in 1..Len(profile.Sample) :
             \A x \in 1..Len(profile.Sample[a].Location),
                y \in 1..Len(profile.Sample[b].Location) :
                LET la == profile.Sample[a].Location[x]
                    lb == profile.Sample[b].Location[y]
                IN profile.Location[la].Address = profile.Location[lb].Address
                   => la = lb /\ profile.Location[la].ID = profile.Location[lb].ID
====
